---- MODULE Spec2Model ----
(***************************************************************************)
(* Namco GunCon 2 USB light gun driver, two-device variant                 *)
(* (src/unnamed/part_001): one physical report stream (an interrupt URB)   *)
(* shared by a joystick and a mouse input device.                          *)
(*                                                                         *)
(* The model covers the session manager (guncon2_open / guncon2_close),    *)
(* the power hooks (suspend, resume, reset_resume, pre_reset, post_reset)  *)
(* and the completion handler guncon2_usb_irq with its decoder, validity   *)
(* filter and event fan-out.                                               *)
(*                                                                         *)
(* The URB follows the USB core's life cycle:                              *)
(*   idle --usb_submit_urb--> inflight --completion--> giveback            *)
(*   giveback --guncon2_usb_irq--> inflight (resubmitted) or idle          *)
(* usb_kill_urb raises urb->reject, unlinks an in-flight URB (it is given  *)
(* back with -ENOENT) and sleeps until the URB is idle; while reject is    *)
(* raised usb_submit_urb answers -EPERM.  A handler that calls             *)
(* usb_kill_urb is therefore two steps: up to the sleep, and from the      *)
(* wake-up to its return.  Every other handler is one step.                *)
(***************************************************************************)
EXTENDS Integers, Sequences, FiniteSets, TLC

(* ---- errno values used by the driver (linux/errno.h) ---- *)
EPERM == 1
ENOENT == 2
EIO == 5
ENOMEM == 12
EBUSY == 16
EPIPE == 32
ETIME == 62
EPROTO == 71
ECONNRESET == 104
ESHUTDOWN == 108

(* ---- program constants ---- *)
X_MIN == 175
X_MAX == 720
Y_MIN == 20
Y_MAX == 240
OFFSCREEN_HYST_FRAMES == 8
\* largest value of the int offscreen_frames
INT_MAX == 2147483647
REPORT_LEN == 6

GUNCON2_DPAD_LEFT == 15
GUNCON2_DPAD_RIGHT == 13
GUNCON2_DPAD_UP == 12
GUNCON2_DPAD_DOWN == 14
GUNCON2_TRIGGER == 5
GUNCON2_BTN_A == 11
GUNCON2_BTN_B == 10
GUNCON2_BTN_C == 9
GUNCON2_BTN_START == 7
GUNCON2_BTN_SELECT == 6

(* ---- bounds of the model ---- *)
\* open_count is an int; opens beyond this many outstanding are not explored
MaxOpenCount == 3
\* longest run of consecutive sentinel reports explored by FilterSpec
MaxFrames == 9
\* longest run of consecutive sentinel reports explored by Spec
MaxSessionFrames == 2
\* reports explored by WrapSpec on each side of the counter's wrap-around
MaxWrapFrames == 2

(* ---- inputs ---- *)
\* urb->status values a completion can carry
Statuses == {0, -ETIME, -ECONNRESET, -ENOENT, -ESHUTDOWN, -EPIPE, -EPROTO}

\* urb->actual_length values: empty, short, exact, long
Lengths == {0, 5, REPORT_LEN, 8}

\* first six bytes of the transfer buffer (data[0] is element 1)
\*   all released, x=0 y=0 (idle sentinel)
ReportIdle == <<255, 255, 0, 0, 0, 0>>
\*   trigger only, x=400 y=130
ReportTrigger == <<255, 223, 144, 1, 130, 0>>
Reports == {ReportIdle, ReportTrigger}

\* values an uninitialised int may hold when it is read
UninitInts == {0, 1, -EIO}

VARIABLES
    open_count,         \* guncon2->open_count
    is_open,            \* guncon2->is_open
    pm_mutex,           \* guncon2->pm_mutex: "free" or the handler holding it
    urb,                \* guncon2->urb: [state, status, actual_length, data]
    reject,             \* urb->reject: usb_kill_urb calls in progress
    last_x,             \* guncon2->last_x
    last_y,             \* guncon2->last_y
    have_last_pos,      \* guncon2->have_last_pos
    offscreen_frames,   \* static int offscreen_frames in guncon2_usb_irq
    js_ev,              \* events the latest step reported to js_input
    mou_ev,             \* events the latest step reported to mouse_input
    last_op,            \* handler that took the latest step
    retval,             \* value returned by the latest handler
    hw,                 \* kernel calls issued by the latest handler
    js_input,           \* guncon2->js_input is not NULL
    sentinel_run,       \* sentinel reports in a row up to now, counted to 8
    power_down,         \* suspended and not yet resumed
    stream_lost         \* the stream ended without a usb_kill_urb

vars == <<open_count, is_open, pm_mutex, urb, reject, last_x, last_y,
          have_last_pos, offscreen_frames, js_ev, mou_ev, last_op, retval,
          hw, js_input, sentinel_run, power_down, stream_lost>>

session == <<open_count, is_open>>
filter == <<last_x, last_y, have_last_pos, offscreen_frames>>

IdleUrb == [state |-> "idle", status |-> 0, actual_length |-> 0,
            data |-> ReportIdle]


\* the URB once usb_submit_urb has accepted it (status and buffer are only
\* meaningful while it is being given back)
SubmittedUrb == [IdleUrb EXCEPT !.state = "inflight"]

(* ---- report decoder ---- *)
\* raw_x = (data[3] << 8) | data[2]
RawX(data) == data[4] * 256 + data[3]

\* raw_y = data[4]
RawY(data) == data[5]

\* the button word taken active-high
ButtonsNotInverted(data) == data[1] * 256 + data[2]

\* buttons = ((data[0] << 8) | data[1]) ^ 0xffff
Buttons(data) == 65535 - (data[1] * 256 + data[2])

\* buttons & BIT(bit)
Pressed(buttons, bit) == (buttons \div (2 ^ bit)) % 2 = 1

\* a length test that lets long reports through
ValidLengthAtLeast(len) == len >= REPORT_LEN

\* urb->actual_length == 6
ValidLength(len) == len = REPORT_LEN

(* ---- validity filter ---- *)
\* the coordinates the protocol reserves or the calibration excludes:
\* (1,5), (1,10), (0,0) and anything outside 175..720 x 20..240
SentinelCoords(x, y) ==
    \/ x = 1 /\ y \in {5, 10}
    \/ x = 0 /\ y = 0
    \/ x < 175 \/ x > 720
    \/ y < 20 \/ y > 240

\* the run of sentinel reports after one more report, counted up to 8
NextRun(sentinel, run) ==
    IF ~sentinel THEN 0 ELSE IF run < 8 THEN run + 1 ELSE 8

\* only the sentinel codes are filtered, not the calibration range
InvalidCoordsCodesOnly(raw_x, raw_y) ==
    \/ raw_x = 1 /\ raw_y \in {5, 10}
    \/ raw_x = 0 /\ raw_y = 0

\* range tests that reject the calibration bounds themselves
InvalidCoordsExclusive(raw_x, raw_y) ==
    \/ raw_x = 1 /\ (raw_y = 5 \/ raw_y = 10)
    \/ raw_x = 0 /\ raw_y = 0
    \/ raw_x <= X_MIN \/ raw_x >= X_MAX \/ raw_y <= Y_MIN \/ raw_y >= Y_MAX

InvalidCoords(raw_x, raw_y) ==
    \/ raw_x = 1 /\ (raw_y = 5 \/ raw_y = 10)
    \/ raw_x = 0 /\ raw_y = 0
    \/ raw_x < X_MIN \/ raw_x > X_MAX \/ raw_y < Y_MIN \/ raw_y > Y_MAX

\* offscreen_frames after the report: offscreen_frames++ on an int, which
\* the kernel build (-fno-strict-overflow) wraps from INT_MAX to INT_MIN
NextFrames(invalid_coords, frames) ==
    IF ~invalid_coords THEN 0
    ELSE IF frames = INT_MAX THEN -INT_MAX - 1 ELSE frames + 1

\* a threshold test that is off by one
OffscreenLate(frames) == frames > OFFSCREEN_HYST_FRAMES

Offscreen(frames) == frames >= OFFSCREEN_HYST_FRAMES

(* ---- event fan-out ---- *)
Ev(code, value) == [code |-> code, value |-> value]

\* input_report_key normalises its value to 0 or 1
Key(code, down) == Ev(code, IF down THEN 1 ELSE 0)

\* an else-if chain: left hides right
HatXLeftWins(buttons) ==
    IF Pressed(buttons, GUNCON2_DPAD_LEFT) THEN -1
    ELSE IF Pressed(buttons, GUNCON2_DPAD_RIGHT) THEN 1 ELSE 0

HatX(buttons) ==
    (IF Pressed(buttons, GUNCON2_DPAD_RIGHT) THEN 1 ELSE 0)
  - (IF Pressed(buttons, GUNCON2_DPAD_LEFT) THEN 1 ELSE 0)

HatY(buttons) ==
    (IF Pressed(buttons, GUNCON2_DPAD_DOWN) THEN 1 ELSE 0)
  - (IF Pressed(buttons, GUNCON2_DPAD_UP) THEN 1 ELSE 0)

\* a position reported whether or not one has been seen
PosEventsAlways(have, x, y) == <<Ev("ABS_X", x), Ev("ABS_Y", y)>>

\* the two axes reported under each other's code
PosEventsSwapped(have, x, y) ==
    IF have THEN <<Ev("ABS_X", y), Ev("ABS_Y", x)>> ELSE <<>>

PosEvents(have, x, y) ==
    IF have THEN <<Ev("ABS_X", x), Ev("ABS_Y", y)>> ELSE <<>>

SyncEvent == Ev("SYN_REPORT", 0)

\* a joystick batch that is never committed
JsEventsNoSync(have, x, y, buttons, offscreen) ==
    PosEvents(have, x, y) \o
    <<Ev("ABS_HAT0X", HatX(buttons)),
      Ev("ABS_HAT0Y", HatY(buttons)),
      Key("BTN_TRIGGER", Pressed(buttons, GUNCON2_TRIGGER)),
      Key("BTN_A", Pressed(buttons, GUNCON2_BTN_A)),
      Key("BTN_B", Pressed(buttons, GUNCON2_BTN_B)),
      Key("BTN_C", Pressed(buttons, GUNCON2_BTN_C)),
      Key("BTN_START", Pressed(buttons, GUNCON2_BTN_START)),
      Key("BTN_SELECT", Pressed(buttons, GUNCON2_BTN_SELECT)),
      Key("BTN_Z", offscreen)>>

JsEvents(have, x, y, buttons, offscreen) ==
    PosEvents(have, x, y) \o
    <<Ev("ABS_HAT0X", HatX(buttons)),
      Ev("ABS_HAT0Y", HatY(buttons)),
      Key("BTN_TRIGGER", Pressed(buttons, GUNCON2_TRIGGER)),
      Key("BTN_A", Pressed(buttons, GUNCON2_BTN_A)),
      Key("BTN_B", Pressed(buttons, GUNCON2_BTN_B)),
      Key("BTN_C", Pressed(buttons, GUNCON2_BTN_C)),
      Key("BTN_START", Pressed(buttons, GUNCON2_BTN_START)),
      Key("BTN_SELECT", Pressed(buttons, GUNCON2_BTN_SELECT)),
      Key("BTN_Z", offscreen),
      SyncEvent>>

\* the single-device variant's mapping: A is right, C is middle
MouseEventsOld(have, x, y, buttons, offscreen) ==
    PosEvents(have, x, y) \o
    <<Key("BTN_LEFT", Pressed(buttons, GUNCON2_TRIGGER)),
      Key("BTN_RIGHT", Pressed(buttons, GUNCON2_BTN_A)),
      Key("BTN_MIDDLE", Pressed(buttons, GUNCON2_BTN_C)),
      Key("BTN_EXTRA", offscreen),
      SyncEvent>>

MouseEvents(have, x, y, buttons, offscreen) ==
    PosEvents(have, x, y) \o
    <<Key("BTN_LEFT", Pressed(buttons, GUNCON2_TRIGGER)),
      Key("BTN_RIGHT", Pressed(buttons, GUNCON2_BTN_A)
                       \/ Pressed(buttons, GUNCON2_BTN_C)),
      Key("BTN_MIDDLE", Pressed(buttons, GUNCON2_BTN_B)),
      Key("BTN_EXTRA", offscreen),
      SyncEvent>>

(* ---- USB core primitives ---- *)
\* a usb_submit_urb that does not look at urb->reject
SubmitErrorNoReject(from_irq, ok) ==
    IF ~from_irq /\ urb.state # "idle" THEN -EBUSY
    ELSE IF ok THEN 0 ELSE -ENOMEM

\* result of usb_submit_urb: an active URB is refused with -EBUSY (the
\* completion handler resubmits its own URB, which is not active any more),
\* a URB being killed with -EPERM; otherwise the host controller decides
SubmitError(from_irq, ok) ==
    IF ~from_irq /\ urb.state # "idle" THEN -EBUSY
    ELSE IF reject > 0 THEN -EPERM
    ELSE IF ok THEN 0 ELSE -ENOMEM

\* usb_kill_urb up to its sleep: reject is raised, an in-flight URB is
\* unlinked and will be given back with -ENOENT
KillUrbBegin ==
    /\ reject' = reject + 1
    /\ urb' = IF urb.state = "inflight"
              THEN [urb EXCEPT !.state = "giveback", !.status = -ENOENT]
              ELSE urb

\* usb_unlink_urb in place of usb_kill_urb: no wait for the URB
KillUrbNoWait == TRUE

\* usb_kill_urb wakes up once the URB is idle
KillUrbDone == urb.state = "idle"

KillUrbEnd == reject' = reject - 1

Active == urb.state # "idle"

NoEvents == js_ev' = <<>> /\ mou_ev' = <<>>

\* guncon2->mouse_input: probe fails before registering anything when the
\* mouse device cannot be allocated, so no handler ever sees it NULL
mouse_input == TRUE

\* The mouse device is registered, and can be opened, before the joystick
\* device is allocated: the initial state is the one probe is in right
\* after input_register_device(mouse_input).
Init ==
    /\ open_count = 0
    /\ is_open = FALSE
    /\ pm_mutex = "free"
    /\ urb = IdleUrb
    /\ reject = 0
    /\ last_x = 0
    /\ last_y = 0
    /\ have_last_pos = FALSE
    /\ offscreen_frames = 0
    /\ js_ev = <<>>
    /\ mou_ev = <<>>
    /\ last_op = "probe"
    /\ retval = 0
    /\ hw = <<>>
    /\ js_input = FALSE
    /\ sentinel_run = 0
    /\ power_down = FALSE
    /\ stream_lost = FALSE

(* ---- guncon2_probe, from the allocation of the joystick device on ---- *)
ProbeJoystick ==
    /\ ~js_input
    /\ js_input' = TRUE
    /\ last_op' = "probe"
    /\ retval' = 0
    /\ hw' = <<>>
    /\ NoEvents
    /\ UNCHANGED <<session, pm_mutex, urb, reject, filter, sentinel_run,
                   power_down, stream_lost>>

(* ---- the transport completes the in-flight URB ---- *)
Complete(status, len, data) ==
    /\ urb.state = "inflight"
    /\ urb' = [state |-> "giveback", status |-> status,
               actual_length |-> len, data |-> data]
    /\ last_op' = "complete"
    /\ retval' = 0
    /\ hw' = <<>>
    /\ NoEvents
    /\ UNCHANGED <<session, pm_mutex, reject, filter, js_input, sentinel_run, power_down,
                   stream_lost>>

(* ---- guncon2_usb_irq ---- *)
\* a status switch whose default case returns as well
TerminatedOrUnknown(status) == status # 0

\* the status cases that return: -ETIME, and the URB being terminated
Terminated(status) ==
    status \in {-ETIME, -ECONNRESET, -ENOENT, -ESHUTDOWN, -EPIPE}

\* explored: the values of offscreen_frames the specification explores
UsbIrq(submit_ok, explored) ==
    /\ urb.state = "giveback"
    /\ LET decode == urb.status = 0 /\ ValidLength(urb.actual_length)
           raw_x == RawX(urb.data)
           raw_y == RawY(urb.data)
           invalid_coords == InvalidCoords(raw_x, raw_y)
           frames == NextFrames(invalid_coords, offscreen_frames)
           offscreen == Offscreen(frames)
           have == have_last_pos \/ ~invalid_coords
           x == IF invalid_coords THEN last_x ELSE raw_x
           y == IF invalid_coords THEN last_y ELSE raw_y
           buttons == Buttons(urb.data)
           error == SubmitError(TRUE, submit_ok)
           dbg == IF urb.status # 0 THEN <<"dev_dbg">> ELSE <<>>
       IN  /\ decode => frames \in explored
           /\ IF decode
              THEN /\ offscreen_frames' = frames
                   /\ last_x' = x
                   /\ last_y' = y
                   /\ have_last_pos' = have
                   /\ js_ev' = IF js_input
                              THEN JsEvents(have, x, y, buttons, offscreen)
                              ELSE <<>>
                   /\ mou_ev' = IF mouse_input
                               THEN MouseEvents(have, x, y, buttons, offscreen)
                               ELSE <<>>
                   /\ sentinel_run' =
                        NextRun(SentinelCoords(urb.data[3] + 256 * urb.data[4],
                                               urb.data[5]), sentinel_run)
              ELSE /\ UNCHANGED <<filter, sentinel_run>>
                   /\ NoEvents
           /\ IF Terminated(urb.status)
              THEN /\ urb' = [IdleUrb EXCEPT !.status = urb.status]
                   /\ hw' = dbg
                   /\ stream_lost' = (stream_lost \/ reject = 0)
              ELSE IF error = 0
              THEN /\ urb' = SubmittedUrb
                   /\ hw' = dbg \o <<"submit_urb">>
                   /\ UNCHANGED stream_lost
              ELSE /\ urb' = IdleUrb
                   /\ hw' = dbg \o (IF error # -EPERM
                                     THEN <<"submit_urb_failed", "dev_err">>
                                     ELSE <<"submit_urb_failed">>)
                   /\ stream_lost' = (stream_lost \/ reject = 0)
    /\ last_op' = "usb_irq"
    /\ retval' = 0
    /\ UNCHANGED <<session, pm_mutex, reject, js_input, power_down>>


\* guncon2_usb_irq running for a second GunCon2 bound to the driver, on a
\* complete report delivered with success: that instance has its own struct
\* guncon2, URB and input devices, which are not followed here, but
\* offscreen_frames is a static local of the function and so the same object
\* for every instance
UsbIrqB(data, explored) ==
    LET frames == NextFrames(InvalidCoords(RawX(data), RawY(data)),
                             offscreen_frames)
    IN  /\ frames \in explored
        /\ offscreen_frames' = frames
        /\ last_op' = "usb_irq_b"
        /\ retval' = 0
        /\ hw' = <<>>
        /\ NoEvents
        /\ UNCHANGED <<session, pm_mutex, urb, reject, last_x, last_y,
                       have_last_pos, js_input, sentinel_run, power_down,
                       stream_lost>>

(* ---- guncon2_open ---- *)
\* the early return that skips out_unlock
OpenAllocFailedLocked ==
    /\ retval' = -ENOMEM
    /\ hw' = <<"kzalloc_failed">>
    /\ pm_mutex' = "open"
    /\ UNCHANGED <<session, urb, stream_lost>>

OpenAllocFailed ==
    /\ retval' = -ENOMEM
    /\ hw' = <<"kzalloc_failed">>
    /\ pm_mutex' = "free"
    /\ UNCHANGED <<session, urb, stream_lost>>

OpenSubmitFailed ==
    /\ retval' = -EIO
    /\ hw' = <<"control_msg", "submit_urb_failed", "dev_err">>
    /\ pm_mutex' = "free"
    /\ UNCHANGED <<session, urb, stream_lost>>

OpenActivated ==
    /\ retval' = 0
    /\ hw' = <<"control_msg", "submit_urb">>
    /\ urb' = SubmittedUrb
    /\ is_open' = TRUE
    /\ open_count' = open_count + 1
    /\ pm_mutex' = "free"
    /\ stream_lost' = FALSE

\* open_count > 0: retval is returned without ever having been assigned
OpenShared(garbage) ==
    /\ retval' = garbage
    /\ hw' = <<>>
    /\ open_count' = open_count + 1
    /\ pm_mutex' = "free"
    /\ UNCHANGED <<is_open, urb, stream_lost>>

\* alloc_ok: kzalloc(6) succeeds; submit_ok: the host controller accepts the
\* URB; garbage: what the uninitialised retval holds when it is returned
Open(alloc_ok, submit_ok, garbage) ==
    /\ pm_mutex = "free"
    /\ open_count < MaxOpenCount
    /\ IF open_count = 0
       THEN IF ~alloc_ok
            THEN OpenAllocFailed
            ELSE IF SubmitError(FALSE, submit_ok) # 0
            THEN OpenSubmitFailed
            ELSE OpenActivated
       ELSE OpenShared(garbage)
    /\ last_op' = "open"
    /\ NoEvents
    /\ UNCHANGED <<reject, filter, js_input, sentinel_run, power_down>>

(* ---- guncon2_close ---- *)
\* a stop issued one close too early
ReachedZeroEarly(count) == count <= 1

\* if (guncon2->open_count == 0), after the decrement
ReachedZero(count) == count = 0

\* a close without the open_count > 0 test
CloseNoFloor ==
    /\ pm_mutex = "free"
    /\ open_count' = open_count - 1
    /\ IF ReachedZero(open_count - 1)
       THEN /\ KillUrbBegin
            /\ pm_mutex' = "close"
            /\ hw' = <<"kill_urb">>
       ELSE /\ hw' = <<>>
            /\ UNCHANGED <<pm_mutex, urb, reject>>
    /\ last_op' = "close"
    /\ retval' = 0
    /\ NoEvents
    /\ UNCHANGED <<is_open, filter, js_input, sentinel_run, power_down, stream_lost>>

\* up to the return, or up to the sleep in usb_kill_urb
Close ==
    /\ pm_mutex = "free"
    /\ IF open_count > 0
       THEN /\ open_count' = open_count - 1
            /\ IF ReachedZero(open_count - 1)
               THEN /\ KillUrbBegin
                    /\ pm_mutex' = "close"
                    /\ hw' = <<"kill_urb">>
               ELSE /\ hw' = <<>>
                    /\ UNCHANGED <<pm_mutex, urb, reject>>
       ELSE /\ hw' = <<>>
            /\ UNCHANGED <<open_count, pm_mutex, urb, reject>>
    /\ last_op' = "close"
    /\ retval' = 0
    /\ NoEvents
    /\ UNCHANGED <<is_open, filter, js_input, sentinel_run, power_down, stream_lost>>

\* a last close that forgets the position and the sentinel run
CloseEndResetsFilter ==
    /\ pm_mutex = "close"
    /\ KillUrbDone
    /\ KillUrbEnd
    /\ is_open' = FALSE
    /\ pm_mutex' = "free"
    /\ stream_lost' = FALSE
    /\ last_op' = "close"
    /\ retval' = 0
    /\ NoEvents
    /\ hw' = <<"kill_urb">>
    /\ last_x' = 0
    /\ last_y' = 0
    /\ have_last_pos' = FALSE
    /\ offscreen_frames' = 0
    /\ UNCHANGED <<open_count, urb, js_input, sentinel_run, power_down>>

\* from the wake-up in usb_kill_urb to the return
CloseEnd ==
    /\ pm_mutex = "close"
    /\ KillUrbDone
    /\ KillUrbEnd
    /\ is_open' = FALSE
    /\ pm_mutex' = "free"
    /\ stream_lost' = FALSE
    /\ last_op' = "close"
    /\ retval' = 0
    /\ NoEvents
    /\ hw' = <<"kill_urb">>
    /\ UNCHANGED <<open_count, urb, filter, js_input, sentinel_run, power_down>>

(* ---- guncon2_suspend ---- *)
\* a suspend that stops the stream without testing is_open
SuspendUnguarded ==
    /\ pm_mutex = "free"
    /\ KillUrbBegin
    /\ pm_mutex' = "suspend"
    /\ hw' = <<"kill_urb">>
    /\ power_down' = TRUE
    /\ last_op' = "suspend"
    /\ retval' = 0
    /\ NoEvents
    /\ UNCHANGED <<session, filter, js_input, sentinel_run, stream_lost>>

Suspend ==
    /\ pm_mutex = "free"
    /\ IF is_open
       THEN /\ KillUrbBegin
            /\ pm_mutex' = "suspend"
            /\ hw' = <<"kill_urb">>
       ELSE /\ hw' = <<>>
            /\ UNCHANGED <<pm_mutex, urb, reject>>
    /\ power_down' = TRUE
    /\ last_op' = "suspend"
    /\ retval' = 0
    /\ NoEvents
    /\ UNCHANGED <<session, filter, js_input, sentinel_run, stream_lost>>

SuspendEnd ==
    /\ pm_mutex = "suspend"
    /\ KillUrbDone
    /\ KillUrbEnd
    /\ pm_mutex' = "free"
    /\ last_op' = "suspend"
    /\ retval' = 0
    /\ NoEvents
    /\ hw' = <<"kill_urb">>
    /\ UNCHANGED <<session, urb, filter, js_input, sentinel_run, power_down, stream_lost>>

(* ---- the restart shared by guncon2_resume and guncon2_post_reset ---- *)
\* if (is_open && usb_submit_urb(urb) < 0) retval = -EIO
\* a restart whose failure is not reported
StartStreamSwallow(submit_ok) ==
    LET error == SubmitError(FALSE, submit_ok)
    IN  IF error < 0
        THEN /\ retval' = 0
             /\ hw' = <<"submit_urb_failed">>
             /\ stream_lost' = (stream_lost \/ ~Active)
             /\ UNCHANGED urb
        ELSE /\ retval' = 0
             /\ hw' = <<"submit_urb">>
             /\ urb' = SubmittedUrb
             /\ stream_lost' = FALSE

StartStream(submit_ok) ==
    LET error == SubmitError(FALSE, submit_ok)
    IN  IF error < 0
        THEN /\ retval' = -EIO
             /\ hw' = <<"submit_urb_failed">>
             /\ stream_lost' = (stream_lost \/ ~Active)
             /\ UNCHANGED urb
        ELSE /\ retval' = 0
             /\ hw' = <<"submit_urb">>
             /\ urb' = SubmittedUrb
             /\ stream_lost' = FALSE

\* a restart that does not test is_open
RestartUnguarded(submit_ok) == StartStream(submit_ok)

\* a restart that never resubmits
RestartSkipped(submit_ok) ==
    /\ retval' = 0
    /\ hw' = <<>>
    /\ UNCHANGED <<urb, stream_lost>>

Restart(submit_ok) ==
    IF is_open
    THEN StartStream(submit_ok)
    ELSE /\ retval' = 0
         /\ hw' = <<>>
         /\ UNCHANGED <<urb, stream_lost>>

(* ---- guncon2_resume ---- *)
Resume(submit_ok) ==
    /\ pm_mutex = "free"
    /\ Restart(submit_ok)
    /\ power_down' = FALSE
    /\ last_op' = "resume"
    /\ NoEvents
    /\ UNCHANGED <<session, pm_mutex, reject, filter, js_input, sentinel_run>>

(* ---- guncon2_reset_resume ---- *)
ResetResume(submit_ok) ==
    /\ pm_mutex = "free"
    /\ Restart(submit_ok)
    /\ power_down' = FALSE
    /\ last_op' = "reset_resume"
    /\ NoEvents
    /\ UNCHANGED <<session, pm_mutex, reject, filter, js_input, sentinel_run>>

(* ---- guncon2_pre_reset ---- *)
\* a pre_reset that stops the stream only when is_open, as suspend does
PreResetGuarded ==
    /\ pm_mutex = "free"
    /\ IF is_open
       THEN /\ KillUrbBegin
            /\ pm_mutex' = "pre_reset"
            /\ hw' = <<"kill_urb">>
       ELSE /\ pm_mutex' = "reset"
            /\ hw' = <<>>
            /\ UNCHANGED <<urb, reject>>
    /\ last_op' = "pre_reset"
    /\ retval' = 0
    /\ NoEvents
    /\ UNCHANGED <<session, filter, js_input, sentinel_run, power_down, stream_lost>>

PreReset ==
    /\ pm_mutex = "free"
    /\ KillUrbBegin
    /\ pm_mutex' = "pre_reset"
    /\ hw' = <<"kill_urb">>
    /\ last_op' = "pre_reset"
    /\ retval' = 0
    /\ NoEvents
    /\ UNCHANGED <<session, filter, js_input, sentinel_run, power_down, stream_lost>>

\* returns with pm_mutex held for the reset
PreResetEnd ==
    /\ pm_mutex = "pre_reset"
    /\ KillUrbDone
    /\ KillUrbEnd
    /\ pm_mutex' = "reset"
    /\ last_op' = "pre_reset"
    /\ retval' = 0
    /\ NoEvents
    /\ hw' = <<"kill_urb">>
    /\ UNCHANGED <<session, urb, filter, js_input, sentinel_run, power_down, stream_lost>>

(* ---- guncon2_post_reset ---- *)
\* the USB core calls it after pre_reset, which left pm_mutex held
PostReset(submit_ok) ==
    /\ pm_mutex = "reset"
    /\ Restart(submit_ok)
    /\ pm_mutex' = "free"
    /\ last_op' = "post_reset"
    /\ NoEvents
    /\ UNCHANGED <<session, reject, filter, js_input, sentinel_run, power_down>>

Next ==
    \/ ProbeJoystick
    \/ \E alloc_ok \in BOOLEAN, submit_ok \in BOOLEAN, garbage \in UninitInts :
          Open(alloc_ok, submit_ok, garbage)
    \/ Close
    \/ CloseEnd
    \/ Suspend
    \/ SuspendEnd
    \/ \E submit_ok \in BOOLEAN : Resume(submit_ok)
    \/ \E submit_ok \in BOOLEAN : ResetResume(submit_ok)
    \/ PreReset
    \/ PreResetEnd
    \/ \E submit_ok \in BOOLEAN : PostReset(submit_ok)
    \/ \E status \in Statuses, len \in Lengths, data \in Reports :
          Complete(status, len, data)
    \/ \E submit_ok \in BOOLEAN : UsbIrq(submit_ok, 0 .. MaxSessionFrames)

Spec == Init /\ [][Next]_vars

(***************************************************************************)
(* The decoder, filter and fan-out on a wide range of reports: the stream  *)
(* has been opened through the mouse device and every delivery is a        *)
(* complete report that is resubmitted.                                    *)
(***************************************************************************)
\* raw_x values: sentinel codes, both calibration bounds and their neighbours
FilterXs == {0, 1, X_MIN - 1, X_MIN, 400, X_MAX, X_MAX + 1}

\* raw_y values: sentinel codes, both calibration bounds and their neighbours
FilterYs == {0, 5, 10, Y_MIN - 1, Y_MIN, 130, Y_MAX, Y_MAX + 1}

\* sets of buttons held down
FilterButtons ==
    { {}, {GUNCON2_TRIGGER}, {GUNCON2_BTN_A}, {GUNCON2_BTN_B}, {GUNCON2_BTN_C},
      {GUNCON2_BTN_START}, {GUNCON2_BTN_SELECT},
      {GUNCON2_DPAD_LEFT}, {GUNCON2_DPAD_RIGHT, GUNCON2_DPAD_DOWN},
      {GUNCON2_DPAD_UP, GUNCON2_BTN_A, GUNCON2_BTN_C},
      {GUNCON2_DPAD_LEFT, GUNCON2_DPAD_RIGHT},
      {GUNCON2_DPAD_UP, GUNCON2_DPAD_DOWN, GUNCON2_DPAD_LEFT,
       GUNCON2_DPAD_RIGHT, GUNCON2_BTN_START, GUNCON2_BTN_SELECT} }

\* every combination of the four directions
FilterPads ==
    SUBSET {GUNCON2_DPAD_LEFT, GUNCON2_DPAD_RIGHT, GUNCON2_DPAD_UP,
            GUNCON2_DPAD_DOWN}

RECURSIVE MaskOf(_)
MaskOf(bits) ==
    IF bits = {} THEN 0
    ELSE LET b == CHOOSE b \in bits : TRUE
         IN  2 ^ b + MaskOf(bits \ {b})

\* the report the device sends for a position and a set of held buttons:
\* buttons active-low in bytes 0-1, X little-endian in bytes 2-3, Y in byte 4
MakeReport(x, y, held) ==
    LET raw == 65535 - MaskOf(held)
    IN  <<raw \div 256, raw % 256, x % 256, x \div 256, y, 0>>

\* every position with no button held, every set of held buttons at a
\* usable position and at the idle sentinel, every pad combination
FilterReports ==
    {MakeReport(x, y, {}) : x \in FilterXs, y \in FilterYs}
    \cup {MakeReport(400, 130, held) : held \in FilterButtons \cup FilterPads}
    \cup {MakeReport(0, 0, held) : held \in FilterButtons}

FilterInit ==
    /\ open_count = 1
    /\ is_open = TRUE
    /\ pm_mutex = "free"
    /\ urb = SubmittedUrb
    /\ reject = 0
    /\ last_x = 0
    /\ last_y = 0
    /\ have_last_pos = FALSE
    /\ offscreen_frames = 0
    /\ js_ev = <<>>
    /\ mou_ev = <<>>
    /\ last_op = "open"
    /\ retval = 0
    /\ hw = <<"control_msg", "submit_urb">>
    /\ js_input = FALSE
    /\ sentinel_run = 0
    /\ power_down = FALSE
    /\ stream_lost = FALSE

FilterNext ==
    \/ ProbeJoystick
    \/ \E data \in FilterReports : Complete(0, REPORT_LEN, data)
    \/ UsbIrq(TRUE, 0 .. MaxFrames)

FilterSpec == FilterInit /\ [][FilterNext]_vars

(***************************************************************************)
(* Two GunCon2 devices bound to the driver, both open and streaming: the   *)
(* instance followed by the variables, and a second one whose deliveries   *)
(* run the same guncon2_usb_irq.                                           *)
(***************************************************************************)
PairNext ==
    \/ ProbeJoystick
    \/ \E data \in Reports : Complete(0, REPORT_LEN, data)
    \/ UsbIrq(TRUE, 0 .. MaxFrames)
    \/ \E data \in Reports : UsbIrqB(data, 0 .. MaxFrames)

PairSpec == FilterInit /\ [][PairNext]_vars

(***************************************************************************)
(* The same stream after INT_MAX - 1 sentinel reports in a row behind the  *)
(* usable report (400,130): each of them added one to offscreen_frames.    *)
(***************************************************************************)
WrapInit ==
    /\ open_count = 1
    /\ is_open = TRUE
    /\ pm_mutex = "free"
    /\ urb = SubmittedUrb
    /\ reject = 0
    /\ last_x = 400
    /\ last_y = 130
    /\ have_last_pos = TRUE
    /\ offscreen_frames = INT_MAX - 1
    /\ js_ev = JsEvents(TRUE, 400, 130, Buttons(ReportIdle), TRUE)
    /\ mou_ev = MouseEvents(TRUE, 400, 130, Buttons(ReportIdle), TRUE)
    /\ last_op = "usb_irq"
    /\ retval = 0
    /\ hw = <<"submit_urb">>
    /\ js_input = TRUE
    /\ sentinel_run = 8
    /\ power_down = FALSE
    /\ stream_lost = FALSE

WrapExplored ==
    (0 .. MaxWrapFrames)
    \cup { INT_MAX - k : k \in 0 .. MaxWrapFrames }
    \cup { (-INT_MAX - 1) + k : k \in 0 .. MaxWrapFrames }

WrapNext ==
    \/ \E data \in FilterReports : Complete(0, REPORT_LEN, data)
    \/ UsbIrq(TRUE, WrapExplored)

WrapSpec == WrapInit /\ [][WrapNext]_vars

(***************************************************************************)
(* The single-device variant src/gcon2.c.  It has one input device, whose  *)
(* batch is kept in js_ev, no open_count (the input core calls open for    *)
(* the first user and close for the last) and no filter; its suspend,      *)
(* resume, reset_resume, pre_reset and post_reset are the same code as     *)
(* above.  pm_mutex = "open" is the mutex held by a guncon2_open that has  *)
(* returned.                                                               *)
(***************************************************************************)
GconInit ==
    /\ open_count = 0
    /\ is_open = FALSE
    /\ pm_mutex = "free"
    /\ urb = IdleUrb
    /\ reject = 0
    /\ last_x = 0
    /\ last_y = 0
    /\ have_last_pos = FALSE
    /\ offscreen_frames = 0
    /\ js_ev = <<>>
    /\ mou_ev = <<>>
    /\ last_op = "probe"
    /\ retval = 0
    /\ hw = <<>>
    /\ js_input = TRUE
    /\ sentinel_run = 0
    /\ power_down = FALSE
    /\ stream_lost = FALSE

\* the batch of one report: raw position, pad and buttons as keys, sync
GconEvents(x, y, buttons) ==
    <<Ev("ABS_X", x), Ev("ABS_Y", y),
      Key("BTN_DPAD_UP", Pressed(buttons, GUNCON2_DPAD_UP)),
      Key("BTN_DPAD_DOWN", Pressed(buttons, GUNCON2_DPAD_DOWN)),
      Key("BTN_DPAD_LEFT", Pressed(buttons, GUNCON2_DPAD_LEFT)),
      Key("BTN_DPAD_RIGHT", Pressed(buttons, GUNCON2_DPAD_RIGHT)),
      Key("BTN_A", Pressed(buttons, GUNCON2_BTN_A)),
      Key("BTN_B", Pressed(buttons, GUNCON2_BTN_B)),
      Key("BTN_C", Pressed(buttons, GUNCON2_BTN_C)),
      Key("BTN_START", Pressed(buttons, GUNCON2_BTN_START)),
      Key("BTN_SELECT", Pressed(buttons, GUNCON2_BTN_SELECT)),
      Key("BTN_LEFT", Pressed(buttons, GUNCON2_TRIGGER)),
      Key("BTN_RIGHT", Pressed(buttons, GUNCON2_BTN_A)),
      Key("BTN_MIDDLE", Pressed(buttons, GUNCON2_BTN_C)),
      SyncEvent>>

GconUsbIrq(submit_ok) ==
    /\ urb.state = "giveback"
    /\ LET error == SubmitError(TRUE, submit_ok)
           dbg == IF urb.status # 0 THEN <<"dev_dbg">> ELSE <<>>
       IN  /\ js_ev' = IF urb.status = 0 /\ urb.actual_length = REPORT_LEN
                       THEN GconEvents(RawX(urb.data), RawY(urb.data),
                                       Buttons(urb.data))
                       ELSE <<>>
           /\ IF Terminated(urb.status)
              THEN /\ urb' = [IdleUrb EXCEPT !.status = urb.status]
                   /\ hw' = dbg
                   /\ stream_lost' = (stream_lost \/ reject = 0)
              ELSE IF error = 0
              THEN /\ urb' = SubmittedUrb
                   /\ hw' = dbg \o <<"submit_urb">>
                   /\ UNCHANGED stream_lost
              ELSE /\ urb' = IdleUrb
                   /\ hw' = dbg \o (IF error # -EPERM
                                     THEN <<"submit_urb_failed", "dev_err">>
                                     ELSE <<"submit_urb_failed">>)
                   /\ stream_lost' = (stream_lost \/ reject = 0)
    /\ mou_ev' = <<>>
    /\ last_op' = "usb_irq"
    /\ retval' = 0
    /\ UNCHANGED <<session, pm_mutex, reject, filter, js_input, sentinel_run,
                   power_down>>

\* alloc_ok: kzalloc(6) succeeds; submit_ok: the host controller accepts the
\* URB.  The kzalloc failure returns -ENOMEM straight away, past the out:
\* label and its mutex_unlock.
GconOpen(alloc_ok, submit_ok) ==
    /\ pm_mutex = "free"
    /\ ~is_open
    /\ IF ~alloc_ok
       THEN /\ retval' = -ENOMEM
            /\ hw' = <<"kzalloc_failed">>
            /\ pm_mutex' = "open"
            /\ UNCHANGED <<is_open, urb, stream_lost>>
       ELSE IF SubmitError(FALSE, submit_ok) # 0
       THEN /\ retval' = -EIO
            /\ hw' = <<"control_msg", "submit_urb_failed", "dev_err">>
            /\ pm_mutex' = "free"
            /\ UNCHANGED <<is_open, urb, stream_lost>>
       ELSE /\ retval' = 0
            /\ hw' = <<"control_msg", "submit_urb">>
            /\ urb' = SubmittedUrb
            /\ is_open' = TRUE
            /\ pm_mutex' = "free"
            /\ stream_lost' = FALSE
    /\ last_op' = "open"
    /\ NoEvents
    /\ UNCHANGED <<open_count, reject, filter, js_input, sentinel_run,
                   power_down>>

\* up to the sleep in usb_kill_urb, which is called unconditionally; the
\* rest of guncon2_close is CloseEnd
GconClose ==
    /\ pm_mutex = "free"
    /\ is_open
    /\ KillUrbBegin
    /\ pm_mutex' = "close"
    /\ hw' = <<"kill_urb">>
    /\ last_op' = "close"
    /\ retval' = 0
    /\ NoEvents
    /\ UNCHANGED <<session, filter, js_input, sentinel_run, power_down,
                   stream_lost>>

GconNext ==
    \/ \E alloc_ok \in BOOLEAN, submit_ok \in BOOLEAN :
          GconOpen(alloc_ok, submit_ok)
    \/ GconClose
    \/ CloseEnd
    \/ Suspend
    \/ SuspendEnd
    \/ \E submit_ok \in BOOLEAN : Resume(submit_ok)
    \/ \E submit_ok \in BOOLEAN : ResetResume(submit_ok)
    \/ PreReset
    \/ PreResetEnd
    \/ \E submit_ok \in BOOLEAN : PostReset(submit_ok)
    \/ \E status \in Statuses, len \in Lengths, data \in Reports :
          Complete(status, len, data)
    \/ \E submit_ok \in BOOLEAN : GconUsbIrq(submit_ok)

GconSpec == GconInit /\ [][GconNext]_vars


(***************************************************************************)
(* Properties                                                              *)
(***************************************************************************)
Range(seq) == {seq[i] : i \in DOMAIN seq}

\* a submission was attempted by the latest handler
SubmitAttempted == {"submit_urb", "submit_urb_failed"} \cap Range(hw) # {}

\* between suspend and resume, or between pre_reset and post_reset
PowerDownWindow == power_down \/ pm_mutex \in {"suspend", "pre_reset", "reset"}

\* C1: whenever open_count is 0 and no guncon2_close is still inside its
\* usb_kill_urb, the URB is neither submitted nor being given back, whatever
\* opens, closes, power transitions and deliveries came before.
C1_NeverActiveAtZero ==
    (open_count = 0 /\ pm_mutex # "close") => ~Active

\* a resume or post_reset at open_count 0, after a usable report had been
\* delivered in an earlier session
C1_Witness ==
    /\ open_count = 0
    /\ last_op \in {"resume", "reset_resume", "post_reset"}
    /\ have_last_pos
    /\ ~Active

C3_LastCloseStops ==
    [][/\ (last_op' = "close" /\ pm_mutex = "free" /\ open_count > 1) =>
            /\ open_count' = open_count - 1
            /\ hw' = <<>>
            /\ urb' = urb
            /\ reject' = reject
            /\ pm_mutex' = "free"
       /\ (last_op' = "close" /\ pm_mutex = "free" /\ open_count = 1) =>
            /\ open_count' = 0
            /\ hw' = <<"kill_urb">>
            /\ reject' = reject + 1
            /\ pm_mutex' = "close"
       /\ (pm_mutex = "close" /\ pm_mutex' = "free") =>
            /\ open_count' = 0
            /\ ~Active'
            /\ reject' = 0]_vars

\* two opens, then one close: the stream is still in flight
C3_Witness ==
    /\ last_op = "close"
    /\ pm_mutex = "free"
    /\ open_count = 1
    /\ is_open
    /\ hw = <<>>
    /\ urb.state = "inflight"

\* C4: guncon2_close at open_count 0 changes nothing: open_count stays 0,
\* is_open is unchanged, no usb_kill_urb is issued and the mutex is released.
C4_CloseAtZeroNoOp ==
    [][(last_op' = "close" /\ pm_mutex = "free" /\ open_count = 0) =>
            /\ open_count' = 0
            /\ is_open' = is_open
            /\ hw' = <<>>
            /\ urb' = urb
            /\ reject' = reject
            /\ pm_mutex' = "free"]_vars

\* a close that found open_count at 0
C4_Witness ==
    /\ last_op = "close"
    /\ pm_mutex = "free"
    /\ open_count = 0
    /\ hw = <<>>

\* C5 as stated: guncon2_open at open_count > 0 returns 0, adds one to
\* open_count, leaves is_open true and sends neither the mode-set command
\* nor the URB.
C5_SharedOpenSucceeds ==
    [][(last_op' = "open" /\ pm_mutex = "free" /\ open_count > 0) =>
            /\ retval' = 0
            /\ open_count' = open_count + 1
            /\ is_open'
            /\ hw' = <<>>
            /\ urb' = urb]_vars

\* C6: when guncon2_open at open_count 0 fails to activate, it returns
\* -ENOMEM (allocation) or -EIO (submission), open_count stays 0, is_open
\* stays false, the URB is idle and pm_mutex is released.
C6_FailedOpenRollsBack ==
    [][(/\ last_op' = "open"
        /\ pm_mutex = "free"
        /\ open_count = 0
        /\ {"kzalloc_failed", "submit_urb_failed"} \cap Range(hw') # {}) =>
            /\ retval' = IF "kzalloc_failed" \in Range(hw')
                         THEN -ENOMEM ELSE -EIO
            /\ open_count' = 0
            /\ ~is_open'
            /\ ~Active'
            /\ pm_mutex' = "free"]_vars

\* an open whose usb_submit_urb was refused
C6_Witness ==
    /\ last_op = "open"
    /\ "submit_urb_failed" \in Range(hw)
    /\ retval = -EIO
    /\ open_count = 0
    /\ ~is_open
    /\ ~Active
    /\ pm_mutex = "free"

\* C7: guncon2_suspend issues usb_kill_urb exactly when is_open is true,
\* never changes open_count or is_open, returns 0, and has the URB idle
\* when it returns after a stop.
C7_SuspendStopsIffOpen ==
    [][last_op' = "suspend" =>
            /\ ("kill_urb" \in Range(hw')) <=> is_open
            /\ open_count' = open_count
            /\ is_open' = is_open
            /\ retval' = 0
            /\ (pm_mutex' = "free" /\ is_open) => ~Active']_vars

\* a suspend of an open device has returned
C7_Witness ==
    /\ last_op = "suspend"
    /\ pm_mutex = "free"
    /\ is_open
    /\ open_count > 0
    /\ hw = <<"kill_urb">>
    /\ ~Active

\* C8: guncon2_resume and guncon2_reset_resume call usb_submit_urb exactly
\* when is_open is true; with is_open false they leave the URB alone and
\* return 0.
C8_ResumeRestartsIffOpen ==
    [][last_op' \in {"resume", "reset_resume"} =>
            /\ SubmitAttempted' <=> is_open
            /\ ~is_open => (retval' = 0 /\ urb' = urb /\ hw' = <<>>)]_vars

\* a resume of a closed device, after reports had been delivered earlier
C8_Witness ==
    /\ last_op = "resume"
    /\ ~is_open
    /\ have_last_pos
    /\ hw = <<>>
    /\ retval = 0
    /\ ~Active

\* C9: when the restart in guncon2_resume, guncon2_reset_resume or
\* guncon2_post_reset fails, the function returns -EIO and open_count and
\* is_open keep their values.
C9_FailedRestartKeepsSession ==
    [][(/\ last_op' \in {"resume", "reset_resume", "post_reset"}
        /\ "submit_urb_failed" \in Range(hw')) =>
            /\ retval' = -EIO
            /\ open_count' = open_count
            /\ is_open' = is_open
            /\ open_count' > 0]_vars

\* a post_reset whose restart failed with both logical devices open
C9_Witness ==
    /\ last_op = "post_reset"
    /\ "submit_urb_failed" \in Range(hw)
    /\ retval = -EIO
    /\ open_count = 2
    /\ is_open

\* C10: a delivery with status 0 and a length other than 6 reports no event
\* and no sync to either device, leaves last_x, last_y, have_last_pos and
\* offscreen_frames unchanged, and still calls usb_submit_urb.
C10_WrongLengthDropped ==
    [][(/\ last_op' = "usb_irq"
        /\ urb.state = "giveback"
        /\ urb.status = 0
        /\ urb.actual_length # REPORT_LEN) =>
            /\ js_ev' = <<>>
            /\ mou_ev' = <<>>
            /\ filter' = filter
            /\ SubmitAttempted']_vars

\* a status-0 delivery (no dev_dbg) that was dropped and resubmitted, in the
\* middle of a run of sentinels behind a known position
C10_Witness ==
    /\ last_op = "usb_irq"
    /\ hw = <<"submit_urb">>
    /\ js_ev = <<>>
    /\ mou_ev = <<>>
    /\ have_last_pos
    /\ offscreen_frames > 0
    /\ urb.state = "inflight"


\* C11 as stated: guncon2_usb_irq calls usb_submit_urb after every delivery
\* (success, timeout, unspecified error) except one whose status says the
\* URB is shutting down; a delivery with a nonzero status reports no event
\* and leaves the filter state unchanged.
C11_ResubmitUnlessShutdown ==
    [][(last_op' = "usb_irq" /\ urb.state = "giveback") =>
            /\ SubmitAttempted' <=>
                 urb.status \notin {-ECONNRESET, -ENOENT, -ESHUTDOWN, -EPIPE}
            /\ urb.status # 0 =>
                 (js_ev' = <<>> /\ mou_ev' = <<>> /\ filter' = filter)]_vars

\* C11 amended: guncon2_usb_irq calls usb_submit_urb after every delivery
\* except one whose status is -ETIME, -ECONNRESET, -ENOENT, -ESHUTDOWN or
\* -EPIPE; a delivery with a nonzero status reports no event and leaves the
\* filter state unchanged.
C11_ResubmitUnlessTerminated ==
    [][(last_op' = "usb_irq" /\ urb.state = "giveback") =>
            /\ SubmitAttempted' <=>
                 urb.status \notin {-ETIME, -ECONNRESET, -ENOENT,
                                    -ESHUTDOWN, -EPIPE}
            /\ urb.status # 0 =>
                 (js_ev' = <<>> /\ mou_ev' = <<>> /\ filter' = filter)]_vars

\* a timed-out delivery was not resubmitted while the device stays open
C11_Witness ==
    /\ last_op = "usb_irq"
    /\ urb.state = "idle"
    /\ urb.status = -ETIME
    /\ hw = <<"dev_dbg">>
    /\ open_count > 0
    /\ reject = 0


(* ---- the delivered report, as the device protocol defines it ---- *)
\* guncon2_usb_irq is about to decode a complete report
Decoding ==
    urb.state = "giveback" /\ urb.status = 0 /\ urb.actual_length = 6

ReportX == urb.data[3] + 256 * urb.data[4]

ReportY == urb.data[5]

\* the buttons are active-low in the 16-bit word 256 * b[0] + b[1]
ReportHeld(bit) == ((256 * urb.data[1] + urb.data[2]) \div (2 ^ bit)) % 2 = 0

ReportSentinel == SentinelCoords(ReportX, ReportY)

Bit(b) == IF b THEN 1 ELSE 0

HasEvent(evs, code) == \E i \in DOMAIN evs : evs[i].code = code

EventValue(evs, code) ==
    evs[CHOOSE i \in DOMAIN evs : evs[i].code = code].value

Syncs(evs) == Cardinality({i \in DOMAIN evs : evs[i].code = "SYN_REPORT"})

\* C12: a decoded (x, y) is treated as sentinel (the run counter grows, the
\* last position is kept) exactly when x = 1 and y is 5 or 10, or x = y = 0,
\* or x < 175, x > 720, y < 20 or y > 240; otherwise it is usable (the run
\* counter is reset and the position becomes the last position), bounds
\* included.
C12_Classification ==
    [][(last_op' = "usb_irq" /\ Decoding) =>
          IF ReportSentinel
          THEN /\ offscreen_frames' = offscreen_frames + 1
               /\ <<last_x', last_y', have_last_pos'>>
                    = <<last_x, last_y, have_last_pos>>
          ELSE /\ offscreen_frames' = 0
               /\ <<last_x', last_y', have_last_pos'>>
                    = <<ReportX, ReportY, TRUE>>]_vars

\* the corner (X_MIN, Y_MAX) was accepted as a position
C12_Witness ==
    /\ last_op = "usb_irq"
    /\ have_last_pos
    /\ last_x = 175
    /\ last_y = 240
    /\ offscreen_frames = 0
    /\ HasEvent(mou_ev, "ABS_X")
    /\ EventValue(mou_ev, "ABS_X") = 175

\* C13: the offscreen value reported for a complete report is 1 exactly
\* when that report and the 7 complete reports before it were all sentinel.
C13_OffscreenAfterEight ==
    [][(last_op' = "usb_irq" /\ Decoding) =>
          /\ EventValue(mou_ev', "BTN_EXTRA") = Bit(sentinel_run' >= 8)
          /\ js_input =>
               EventValue(js_ev', "BTN_Z") = Bit(sentinel_run' >= 8)
          /\ ~ReportSentinel =>
               EventValue(mou_ev', "BTN_EXTRA") = 0]_vars

\* the eighth sentinel in a row has just raised offscreen on both devices
C13_Witness ==
    /\ last_op = "usb_irq"
    /\ sentinel_run = 8
    /\ offscreen_frames = 8
    /\ js_input
    /\ EventValue(js_ev, "BTN_Z") = 1
    /\ EventValue(mou_ev, "BTN_EXTRA") = 1

\* C14: have_last_pos never goes back to false; once it is true every
\* complete report reports the position (last_x, last_y) to each device,
\* and that position changes only on a usable report, to the report's own
\* (x, y).
C14_LastPositionKept ==
    [][/\ have_last_pos => have_last_pos'
       /\ (last_op' = "usb_irq" /\ Decoding /\ have_last_pos) =>
            /\ HasEvent(mou_ev', "ABS_X") /\ HasEvent(mou_ev', "ABS_Y")
            /\ EventValue(mou_ev', "ABS_X") = last_x'
            /\ EventValue(mou_ev', "ABS_Y") = last_y'
            /\ js_input =>
                 /\ HasEvent(js_ev', "ABS_X") /\ HasEvent(js_ev', "ABS_Y")
                 /\ EventValue(js_ev', "ABS_X") = last_x'
                 /\ EventValue(js_ev', "ABS_Y") = last_y'
            /\ <<last_x', last_y'>> # <<last_x, last_y>> =>
                 (~ReportSentinel /\ <<last_x', last_y'>> = <<ReportX, ReportY>>)
       ]_vars

\* a sentinel report, three into a run, still reports the position (400,130)
C14_Witness ==
    /\ last_op = "usb_irq"
    /\ sentinel_run = 3
    /\ have_last_pos
    /\ EventValue(mou_ev, "ABS_X") = 400
    /\ EventValue(mou_ev, "ABS_Y") = 130
    /\ js_input
    /\ EventValue(js_ev, "ABS_X") = 400

\* C15: the decoded sample depends on the six bytes only: x = b[2] +
\* 256 * b[3] and y = b[4] decide the classification and are the position
\* taken over from a usable report, and a button is reported held exactly
\* when its bit of 256 * b[0] + b[1] is 0; the report FF FF 00 00 00 00 is a
\* sentinel with every button released and the hat at (0,0).
C15_Decoding ==
    [][(last_op' = "usb_irq" /\ Decoding) =>
          /\ (offscreen_frames' = 0) <=> ~ReportSentinel
          /\ ~ReportSentinel => (last_x' = ReportX /\ last_y' = ReportY)
          /\ EventValue(mou_ev', "BTN_LEFT") = Bit(ReportHeld(GUNCON2_TRIGGER))
          /\ EventValue(mou_ev', "BTN_MIDDLE") = Bit(ReportHeld(GUNCON2_BTN_B))
          /\ js_input =>
               /\ EventValue(js_ev', "BTN_TRIGGER")
                    = Bit(ReportHeld(GUNCON2_TRIGGER))
               /\ EventValue(js_ev', "BTN_A") = Bit(ReportHeld(GUNCON2_BTN_A))
               /\ EventValue(js_ev', "BTN_B") = Bit(ReportHeld(GUNCON2_BTN_B))
               /\ EventValue(js_ev', "BTN_C") = Bit(ReportHeld(GUNCON2_BTN_C))
               /\ EventValue(js_ev', "BTN_START")
                    = Bit(ReportHeld(GUNCON2_BTN_START))
               /\ EventValue(js_ev', "BTN_SELECT")
                    = Bit(ReportHeld(GUNCON2_BTN_SELECT))
          /\ urb.data = <<255, 255, 0, 0, 0, 0>> =>
               /\ ReportX = 0 /\ ReportY = 0
               /\ offscreen_frames' = offscreen_frames + 1
               /\ <<last_x', last_y'>> = <<last_x, last_y>>
               /\ \A c \in {"BTN_LEFT", "BTN_RIGHT", "BTN_MIDDLE"} :
                      EventValue(mou_ev', c) = 0
               /\ js_input =>
                    \A c \in {"ABS_HAT0X", "ABS_HAT0Y", "BTN_TRIGGER", "BTN_A",
                               "BTN_B", "BTN_C", "BTN_START", "BTN_SELECT"} :
                       EventValue(js_ev', c) = 0]_vars

\* the report with up, A and C held at (400,130) has been decoded
C15_Witness ==
    /\ last_op = "usb_irq"
    /\ js_input
    /\ js_ev = <<Ev("ABS_X", 400), Ev("ABS_Y", 130), Ev("ABS_HAT0X", 0),
                 Ev("ABS_HAT0Y", -1), Ev("BTN_TRIGGER", 0), Ev("BTN_A", 1),
                 Ev("BTN_B", 0), Ev("BTN_C", 1), Ev("BTN_START", 0),
                 Ev("BTN_SELECT", 0), Ev("BTN_Z", 0), SyncEvent>>

C17_Hat ==
    [][(last_op' = "usb_irq" /\ Decoding /\ js_input) =>
          /\ EventValue(js_ev', "ABS_HAT0X")
               = Bit(ReportHeld(GUNCON2_DPAD_RIGHT))
                 - Bit(ReportHeld(GUNCON2_DPAD_LEFT))
          /\ EventValue(js_ev', "ABS_HAT0Y")
               = Bit(ReportHeld(GUNCON2_DPAD_DOWN))
                 - Bit(ReportHeld(GUNCON2_DPAD_UP))
          /\ EventValue(js_ev', "ABS_HAT0X") \in {-1, 0, 1}
          /\ EventValue(js_ev', "ABS_HAT0Y") \in {-1, 0, 1}
          /\ (ReportHeld(GUNCON2_DPAD_LEFT) /\ ReportHeld(GUNCON2_DPAD_RIGHT))
               => EventValue(js_ev', "ABS_HAT0X") = 0
          /\ (ReportHeld(GUNCON2_DPAD_UP) /\ ReportHeld(GUNCON2_DPAD_DOWN))
               => EventValue(js_ev', "ABS_HAT0Y") = 0]_vars

\* all four directions held, together with start and select: the hat is
\* reported at (0,0)
C17_Witness ==
    /\ last_op = "usb_irq"
    /\ js_input
    /\ EventValue(js_ev, "BTN_START") = 1
    /\ EventValue(js_ev, "BTN_SELECT") = 1
    /\ EventValue(js_ev, "ABS_HAT0X") = 0
    /\ EventValue(js_ev, "ABS_HAT0Y") = 0

\* C18: a complete report delivered with success gives each existing
\* device one batch ending in its only sync; no step leaves events to a
\* device without a sync behind them; while js_input is NULL the mouse
\* batch is still emitted and committed and nothing goes to the joystick.
C18_BatchesCommitted ==
    [][/\ (last_op' = "usb_irq" /\ Decoding) =>
            /\ mou_ev' # <<>>
            /\ js_input => js_ev' # <<>>
            /\ ~js_input => js_ev' = <<>>
       /\ \A evs \in {js_ev', mou_ev'} :
            evs # <<>> =>
               /\ evs[Len(evs)] = SyncEvent
               /\ Syncs(evs) = 1
               /\ Len(evs) > 1]_vars

\* a report decoded before the joystick device exists: the mouse batch is
\* committed, the joystick gets nothing
C18_Witness ==
    /\ last_op = "usb_irq"
    /\ ~js_input
    /\ js_ev = <<>>
    /\ Len(mou_ev) > 1
    /\ mou_ev[Len(mou_ev)] = SyncEvent

\* the latest handler started the stream: the URB was not in flight and
\* guncon2_open, guncon2_resume or guncon2_post_reset submitted it
StreamStarted ==
    /\ last_op' \in {"open", "resume", "reset_resume", "post_reset"}
    /\ urb.state # "inflight"
    /\ urb'.state = "inflight"

ModeSets(calls) == Cardinality({i \in DOMAIN calls : calls[i] = "control_msg"})

\* C19: every start of the stream by guncon2_open, guncon2_resume or
\* guncon2_post_reset comes with exactly one mode-set command, and a
\* mode-set command is sent only by a handler that goes on to submit the
\* URB, once, whether or not the command or the submission succeeds.
C19_ModeSetPerStart ==
    [][/\ StreamStarted => ModeSets(hw') = 1
       /\ ModeSets(hw') > 0 =>
            /\ ModeSets(hw') = 1
            /\ last_op' \in {"open", "resume", "reset_resume", "post_reset"}
            /\ {"submit_urb", "submit_urb_failed"} \cap Range(hw') # {}
       ]_vars

\* a delivery that meets a guncon2_close inside usb_kill_urb: its status
\* says the URB is terminated, or its resubmission is refused with -EPERM
ObservesStop ==
    /\ last_op' = "usb_irq"
    /\ pm_mutex = "close"
    /\ \/ Terminated(urb.status)
       \/ /\ "submit_urb_failed" \in Range(hw')
          /\ "dev_err" \notin Range(hw')

\* C20: from the return of the guncon2_close that brought open_count to 0
\* until the next successful guncon2_open no events are emitted and the
\* filter state does not change; a delivery that observes the stop emits
\* nothing, changes no filter state and logs no error.
C20_StoppedDeliveryIsNoOp ==
    [][/\ (open_count = 0 /\ pm_mutex # "close") =>
            /\ js_ev' = <<>> /\ mou_ev' = <<>>
            /\ filter' = filter
       /\ ObservesStop =>
            /\ js_ev' = <<>> /\ mou_ev' = <<>>
            /\ filter' = filter
            /\ "dev_err" \notin Range(hw')
       ]_vars

\* the latest handler wrote open_count or is_open, or called usb_submit_urb
\* or usb_kill_urb
SessionOrStreamStep ==
    \/ session' # session
    \/ {"submit_urb", "submit_urb_failed", "kill_urb"} \cap Range(hw') # {}

\* the step belongs to the handler that owns pm_mutex: the mutex was free
\* for it to take, or it has been holding it since an earlier step
OwnsMutex ==
    \/ pm_mutex = "free"
    \/ pm_mutex = "close" /\ last_op' = "close"
    \/ pm_mutex = "suspend" /\ last_op' = "suspend"
    \/ pm_mutex = "pre_reset" /\ last_op' = "pre_reset"
    \/ pm_mutex = "reset" /\ last_op' = "post_reset"

\* C21 as claimed: no write to open_count or is_open and no usb_submit_urb
\* or usb_kill_urb, the resubmission by guncon2_usb_irq included, happens
\* while another handler holds pm_mutex.
C21_AllSerialized ==
    [][SessionOrStreamStep => OwnsMutex]_vars

\* C21 as the code has it: open, close, suspend, resume, pre_reset and
\* post_reset write open_count and is_open and start or stop the stream only
\* as owner of pm_mutex; guncon2_usb_irq resubmits without the mutex, and a
\* resubmission that meets a handler holding it is refused with -EPERM and
\* leaves the URB idle.
C21_HandlersSerialized ==
    [][/\ (SessionOrStreamStep /\ last_op' # "usb_irq") => OwnsMutex
       /\ last_op' = "usb_irq" => session' = session
       /\ (last_op' = "usb_irq" /\ pm_mutex # "free") =>
            /\ reject > 0
            /\ urb'.state = "idle"
            /\ "submit_urb" \notin Range(hw')]_vars

\* a resubmission was attempted, and refused, while guncon2_close held
\* pm_mutex inside usb_kill_urb
C21_Witness ==
    /\ last_op = "usb_irq"
    /\ pm_mutex = "close"
    /\ hw = <<"submit_urb_failed">>
    /\ urb.state = "idle"

\* C22: the counter saturates: a sentinel report that arrives when the
\* counter is already at or above the threshold leaves it at or above the
\* threshold and reports offscreen 1, however long the run.
C22_CounterSaturates ==
    [][(/\ last_op' = "usb_irq"
        /\ Decoding
        /\ ReportSentinel
        /\ offscreen_frames >= OFFSCREEN_HYST_FRAMES) =>
          /\ offscreen_frames' >= OFFSCREEN_HYST_FRAMES
          /\ EventValue(mou_ev', "BTN_EXTRA") = 1
          /\ js_input => EventValue(js_ev', "BTN_Z") = 1]_vars

\* C23: with a second device bound and delivering reports, the offscreen
\* value reported for this device's report is decided by this device's own
\* reports alone: 1 when its last 8 complete reports were all sentinels, 0
\* when one of them was usable or fewer than 8 have been delivered.
C23_OffscreenPerDevice ==
    [][(last_op' = "usb_irq" /\ Decoding) =>
          LET own == Bit(sentinel_run' >= OFFSCREEN_HYST_FRAMES)
          IN  /\ EventValue(mou_ev', "BTN_EXTRA") = own
              /\ js_ev' # <<>> => EventValue(js_ev', "BTN_Z") = own]_vars

\* the codes a batch carries, in order
Codes(evs) == [i \in DOMAIN evs |-> evs[i].code]

\* C24: a complete report puts ABS_X and ABS_Y into a batch exactly when
\* have_last_pos is true once the filter has processed the report; while no
\* usable report has been seen both batches carry no position but all their
\* button, hat and offscreen events, and are committed.
C24_PositionIffHaveLast ==
    [][(last_op' = "usb_irq" /\ Decoding) =>
          /\ HasEvent(mou_ev', "ABS_X") <=> have_last_pos'
          /\ HasEvent(mou_ev', "ABS_Y") <=> have_last_pos'
          /\ js_input =>
               /\ HasEvent(js_ev', "ABS_X") <=> have_last_pos'
               /\ HasEvent(js_ev', "ABS_Y") <=> have_last_pos'
          /\ have_last_pos' <=> (have_last_pos \/ ~ReportSentinel)
          /\ ~have_last_pos' =>
               /\ Codes(mou_ev') = <<"BTN_LEFT", "BTN_RIGHT", "BTN_MIDDLE",
                                     "BTN_EXTRA", "SYN_REPORT">>
               /\ js_input =>
                    Codes(js_ev') = <<"ABS_HAT0X", "ABS_HAT0Y", "BTN_TRIGGER",
                                      "BTN_A", "BTN_B", "BTN_C", "BTN_START",
                                      "BTN_SELECT", "BTN_Z", "SYN_REPORT">>
       ]_vars

\* a sentinel report with the trigger held, before any usable report: both
\* batches were committed without a position
C24_Witness ==
    /\ last_op = "usb_irq"
    /\ ~have_last_pos
    /\ js_input
    /\ ~HasEvent(js_ev, "ABS_X")
    /\ EventValue(js_ev, "BTN_TRIGGER") = 1
    /\ mou_ev = <<Ev("BTN_LEFT", 1), Ev("BTN_RIGHT", 0), Ev("BTN_MIDDLE", 0),
                  Ev("BTN_EXTRA", 0), SyncEvent>>

\* C25: guncon2_pre_reset calls usb_kill_urb whatever is_open is, writes
\* neither open_count nor is_open and returns holding pm_mutex; from its
\* return to guncon2_post_reset the URB is idle and no step of open, close,
\* suspend or resume happens; guncon2_post_reset submits the URB exactly
\* when is_open is true, writes neither field and releases pm_mutex.
C25_ResetWindow ==
    [][/\ last_op' = "pre_reset" =>
            /\ "kill_urb" \in Range(hw')
            /\ session' = session
            /\ pm_mutex' \in {"pre_reset", "reset"}
       /\ pm_mutex' = "reset" => urb'.state = "idle"
       /\ pm_mutex = "reset" =>
            /\ last_op' \notin {"open", "close", "suspend", "resume",
                                "reset_resume", "usb_irq"}
            /\ session' = session
       /\ last_op' = "post_reset" =>
            /\ pm_mutex = "reset"
            /\ pm_mutex' = "free"
            /\ session' = session
            /\ ({"submit_urb", "submit_urb_failed"} \cap Range(hw') # {})
                 <=> is_open
            /\ "submit_urb" \in Range(hw') => urb'.state = "inflight"
            /\ "submit_urb" \notin Range(hw') => urb'.state = "idle"
       ]_vars

\* a reset of a closed device: pre_reset has killed the URB and returned,
\* holding pm_mutex, and post_reset is still to come
C25_Witness ==
    /\ last_op = "pre_reset"
    /\ pm_mutex = "reset"
    /\ ~is_open
    /\ open_count = 0
    /\ hw = <<"kill_urb">>
    /\ urb.state = "idle"
    /\ reject = 0

\* C26: no step of open, close, suspend, resume, reset_resume, pre_reset or
\* post_reset changes last_x, last_y, have_last_pos or offscreen_frames, so
\* a sentinel report, in whichever session it arrives, reports the position
\* stored by the last usable report and adds one to the run counted so far.
C26_FilterStatePersists ==
    [][/\ last_op' \in {"open", "close", "suspend", "resume", "reset_resume",
                        "pre_reset", "post_reset"} => filter' = filter
       /\ (last_op' = "usb_irq" /\ Decoding /\ ReportSentinel) =>
            /\ offscreen_frames' = offscreen_frames + 1
            /\ <<last_x', last_y', have_last_pos'>>
                 = <<last_x, last_y, have_last_pos>>
            /\ have_last_pos =>
                 /\ EventValue(mou_ev', "ABS_X") = last_x
                 /\ EventValue(mou_ev', "ABS_Y") = last_y
       ]_vars

\* a first open (the mode-set was sent) that finds the position and a
\* sentinel run of two left behind by an earlier session
C26_Witness ==
    /\ last_op = "open"
    /\ open_count = 1
    /\ hw = <<"control_msg", "submit_urb">>
    /\ have_last_pos
    /\ last_x = 400
    /\ last_y = 130
    /\ offscreen_frames = 2

\* C27: from the return of guncon2_suspend to the next guncon2_resume the
\* URB is neither submitted nor being given back and no batch is emitted,
\* whatever opens and closes happen in between.
C27_SuspendWindowQuiet ==
    (power_down /\ pm_mutex # "suspend") =>
        /\ ~Active
        /\ js_ev = <<>>
        /\ mou_ev = <<>>

\* C28: whenever pm_mutex is free, is_open is true exactly when open_count
\* is positive; and open_count counts only opens that succeeded and are not
\* yet closed: it grows by one, and only in a guncon2_open that returns 0.
C28_CountMatchesOpens ==
    [][/\ pm_mutex' = "free" => (is_open' <=> open_count' > 0)
       /\ open_count' > open_count =>
            /\ last_op' = "open"
            /\ open_count' = open_count + 1
            /\ retval' = 0]_vars

\* the position a batch carries lies in the calibrated range
PositionInRange(evs) ==
    /\ HasEvent(evs, "ABS_X") =>
         /\ HasEvent(evs, "ABS_Y")
         /\ EventValue(evs, "ABS_X") \in X_MIN .. X_MAX
         /\ EventValue(evs, "ABS_Y") \in Y_MIN .. Y_MAX
         /\ <<EventValue(evs, "ABS_X"), EventValue(evs, "ABS_Y")>>
              \notin {<<1, 5>>, <<1, 10>>, <<0, 0>>}
    /\ HasEvent(evs, "ABS_Y") => HasEvent(evs, "ABS_X")

\* C29: every position emitted to either device has X_MIN <= x <= X_MAX
\* and Y_MIN <= y <= Y_MAX and is none of (1,5), (1,10), (0,0); when both
\* devices get a batch for a report, they get the same position, or both
\* none, and the same offscreen value.
C29_EmittedPositionsValid ==
    /\ PositionInRange(js_ev)
    /\ PositionInRange(mou_ev)
    /\ (js_ev # <<>> /\ mou_ev # <<>>) =>
         /\ HasEvent(js_ev, "ABS_X") <=> HasEvent(mou_ev, "ABS_X")
         /\ HasEvent(js_ev, "ABS_X") =>
              /\ EventValue(js_ev, "ABS_X") = EventValue(mou_ev, "ABS_X")
              /\ EventValue(js_ev, "ABS_Y") = EventValue(mou_ev, "ABS_Y")
         /\ EventValue(js_ev, "BTN_Z") = EventValue(mou_ev, "BTN_EXTRA")

\* eight sentinel reports after the corner (X_MAX, Y_MIN): both devices
\* report that corner and offscreen
C29_Witness ==
    /\ last_op = "usb_irq"
    /\ sentinel_run = 8
    /\ HasEvent(js_ev, "ABS_X")
    /\ HasEvent(mou_ev, "ABS_X")
    /\ EventValue(js_ev, "ABS_X") = X_MAX
    /\ EventValue(js_ev, "ABS_Y") = Y_MIN
    /\ EventValue(mou_ev, "ABS_X") = X_MAX
    /\ EventValue(mou_ev, "ABS_Y") = Y_MIN
    /\ EventValue(js_ev, "BTN_Z") = 1
    /\ EventValue(mou_ev, "BTN_EXTRA") = 1

\* C30: in src/gcon2.c every return of guncon2_open leaves pm_mutex
\* released, the return after a failed allocation included, so the mutex is
\* never left held by an open that has returned and later handlers can take
\* it.
C30_OpenReleasesMutex ==
    [][/\ last_op' = "open" => pm_mutex' = "free"
       /\ pm_mutex' # "open"]_vars

====
